---- MODULE Spec2Model ----
(***************************************************************************)
(* md-xformer: the debounced watch/build coordinator and the template      *)
(* substitution engine.                                                    *)
(*                                                                         *)
(* The repository holds two generations of the watch subsystem:            *)
(*   - runWatch            (src/src/watch.ts, called by src/src/cli.ts)    *)
(*   - startWatch          (src/unnamed/part_005), called by               *)
(*     handleWatchCommand  (src/unnamed/part_006) and by the unit tests.   *)
(* A session is one of them, chosen in Init (impl, once).                  *)
(*                                                                         *)
(* Strings (paths, templates, values) are sequences of atoms; an atom is a *)
(* piece of text that the code's string operations never cut in two for    *)
(* the inputs drawn here.                                                  *)
(***************************************************************************)
EXTENDS Integers, Sequences, FiniteSets, TLC

VARIABLES
    impl,           \* "runWatch" | "handleWatchCommand" | "startWatch"
    once,           \* opts.once
    pc,             \* position of the command: "start" | "initial" | "watching" | "returned"
    changedFiles,   \* ctx.changedFiles (runWatch)
    timers,         \* the runtime's armed timeouts: set of [id, left]
    debounceTimer,  \* the handle the code keeps (ctx.debounceTimer / debounceTimer)
    isRebuilding,   \* ctx.isRebuilding (runWatch)
    building,       \* building (startWatch)
    templates,      \* ctx.templates: identity of the registry object (number of the load that made it)
    builds,         \* the builds in flight, in the order they started
    lastDone,       \* the build that settled last
    started,        \* number of builds started so far
    ready,          \* the watcher's ready event has been delivered
    closeCalls,     \* number of calls of watcher.close()
    signals,        \* number of stop signals delivered
    sinceEvent,     \* history: ticks since the last qualifying file event
    burstLen,       \* history: qualifying events of the current burst
    timerStarts,    \* history: builds started by the timer since the last qualifying event
    startsAfterStop,\* history: builds started at or after the first stop signal
    stopMidTimer,   \* history: a stop signal arrived while a timer was armed
    stoppedBuilds,  \* history: ids of the builds in flight when a stop signal arrived
    closedStarts,   \* history: builds started after the watcher was closed
    dropped,        \* history: a timeout callback returned at the guard (1) or none did (0)
    evt,            \* history: the path of the file event this step delivered, or NoEvent
    tplIn,          \* template engine: the input of the render under check
    tplOut,         \* template engine: the output, or NotRendered
    tokens,         \* walker: the token stream md.parse returned
    index,          \* walker: i + 1, the position of the loop in tokens, from 1
    emitted,        \* walker: what was appended to out, one record per loop turn
    exitCode,       \* the number the command returned, or NoExitCode while it runs
    dryRun,         \* --dry-run
    force,          \* init: --force
    preset,         \* init: the name given with --preset
    disk,           \* init: what each file of the target directory holds
    disk0,          \* history: disk when runInit was called
    results         \* init: the results of writeFileIfNeeded so far

watchVars == <<impl, once, pc, changedFiles, timers, debounceTimer, isRebuilding,
               building, templates, builds, lastDone, started, ready, closeCalls,
               signals, sinceEvent, burstLen, timerStarts, startsAfterStop,
               stopMidTimer, stoppedBuilds, closedStarts, dropped, evt>>
walkVars == <<tokens, index, emitted>>
tplVars == <<tplIn, tplOut, walkVars>>
initVars == <<force, preset, disk, disk0, results>>
cmdVars == <<exitCode, dryRun, initVars>>
vars == <<watchVars, tplVars, cmdVars>>

-----------------------------------------------------------------------------
(* Bounds *)

Debounce == 2       \* opts.debounce / debounceMs, in ticks
MaxDocs == 2        \* most documents collectMarkdownFiles discovers
MaxBuilds == 3      \* most builds started in one session
MaxSignals == 2     \* most stop signals delivered in one session
MaxPending == 2     \* most distinct paths that change between two rebuilds

-----------------------------------------------------------------------------
(* Strings as sequences of atoms *)

RECURSIVE IsPrefix(_, _)
IsPrefix(p, s) ==
    IF p = <<>> THEN TRUE
    ELSE IF s = <<>> THEN FALSE
    ELSE Head(p) = Head(s) /\ IsPrefix(Tail(p), Tail(s))

\* String.prototype.toLowerCase on one atom
LowerAtom(a) ==
    CASE a = ".MD" -> ".md"
      [] a = "H2" -> "h2"
      [] a = "Hello" -> "hello"
      [] OTHER -> a

ToLowerCase(s) == [k \in 1..Len(s) |-> LowerAtom(s[k])]

\* the text of atom a ends with the text suf
AtomEndsWith(a, suf) ==
    \/ a = suf
    \/ a = ".template.html" /\ suf = ".html"

\* the text of atom a starts with the text pre
AtomStartsWith(a, pre) ==
    \/ a = pre
    \/ a = "template2" /\ pre = "template"

\* String.prototype.startsWith: the text of s starts with the text of pre
StartsWith(s, pre) ==
    \/ pre = <<>>
    \/ /\ Len(s) >= Len(pre)
       /\ SubSeq(s, 1, Len(pre) - 1) = SubSeq(pre, 1, Len(pre) - 1)
       /\ AtomStartsWith(s[Len(pre)], pre[Len(pre)])

\* String.prototype.endsWith, for a suffix held in the last atom
EndsWith(s, suf) == s # <<>> /\ AtomEndsWith(s[Len(s)], suf)

sep == "/"

\* path.dirname: all that precedes the last separator
Dirname(p) ==
    LET slashes == {k \in 1..Len(p) : p[k] = sep}
        last == CHOOSE k \in slashes : \A j \in slashes : j <= k
    IN  IF slashes = {} THEN <<".">> ELSE SubSeq(p, 1, last - 1)

inputAbs == <<sep, "repo", sep, "input">>
templateAbs == <<sep, "repo", sep, "template">>
outAbs == inputAbs \o <<sep, "out">>

P_md == inputAbs \o <<sep, "a", ".md">>
P_MD == inputAbs \o <<sep, "b", ".MD">>
P_txt == inputAbs \o <<sep, "c", ".txt">>
P_tpl == templateAbs \o <<sep, "h2", ".template.html">>
P_tplSub == templateAbs \o <<sep, "sub", sep, "h2", ".template.html">>
P_tplMd == templateAbs \o <<sep, "readme", ".md">>

P_out == outAbs \o <<sep, "a", ".md">>
P_nodeModules == inputAbs \o <<sep, "node_modules", sep, "a", ".md">>
P_dist == inputAbs \o <<sep, "dist", sep, "a", ".md">>
P_git == inputAbs \o <<sep, ".git", sep, "a", ".md">>
P_distillery == inputAbs \o <<sep, "distillery", sep, "a", ".md">>

\* opts.include of runWatch: the directory of the one pattern `template2/**/*.md`,
\* a sibling of the template directory
includeAbs == <<sep, "repo", sep, "template2">>
P_include == includeAbs \o <<sep, "a", ".md">>

\* the paths of the files that change on disk, by an edit or by a rebuild
EventPaths ==
    {P_md, P_MD, P_txt, P_tpl, P_tplSub, P_out, P_nodeModules, P_dist, P_git,
     P_distillery, P_include, P_tplMd}

\* the segment of p at k: an atom between separators or the ends of p
IsSegment(p, k) ==
    /\ k = 1 \/ p[k - 1] = sep
    /\ k = Len(p) \/ p[k + 1] = sep

\* part_005, line 14
IGNORED_DIRS == {"node_modules", ".git", "dist"}

\* the text of atom a matches the text of dir read as a regular expression: the
\* dot of `.git` stands for any character
MatchesDir(dir, a) == a = dir \/ (dir = ".git" /\ a = "_git")

\* part_005, lines 16-18
IsUnderDir(filePath, dirAbs) ==
    filePath = dirAbs \/ IsPrefix(dirAbs \o <<sep>>, filePath)

\* part_005, lines 36-39: the watcher of startWatch is given the input path and
\* the template directory
WatchedPaths(p) == IsUnderDir(p, inputAbs) \/ IsUnderDir(p, templateAbs)

\* an `ignored` that lets every path through
IgnoresNothing(filePath) == FALSE

\* part_005, lines 20-29: the function given to the watcher as `ignored`
BuildIgnored(filePath) ==
    \/ IsUnderDir(filePath, outAbs)
    \/ \E dir \in IGNORED_DIRS : \E k \in 1..Len(filePath) :
           MatchesDir(dir, filePath[k]) /\ IsSegment(filePath, k)

\* watch.ts, lines 74-88: the globs given to the watcher as `ignored`:
\* `**/node_modules/**`, `**/dist/**`, `**/.git/**` and `${outDirAbs}/**`
GetIgnorePatterns(filePath) ==
    \/ IsPrefix(outAbs \o <<sep>>, filePath)
    \/ \E dir \in IGNORED_DIRS : \E k \in 1..Len(filePath) :
           filePath[k] = dir /\ IsSegment(filePath, k) /\ k < Len(filePath)

-----------------------------------------------------------------------------
(* Timers of the run loop *)

NoTimer == 0

NoEvent == <<>>

Min(a, b) == IF a < b THEN a ELSE b

\* setTimeout(cb, debounce) with the timeouts in `armed` still armed: a fresh
\* handle, due after Debounce ticks
NewTimer(armed) ==
    LET free == {k \in 1..(Cardinality(armed) + 1) : \A t \in armed : t.id # k}
    IN  [id |-> CHOOSE k \in free : \A j \in free : k <= j, left |-> Debounce]

\* a scheduleRebuild that leaves the earlier timeout armed
KeepTimeout(h) == timers

\* clearTimeout(h): no effect on a timeout that has fired or on null
ClearTimeout(h) == {t \in timers : t.id # h}

\* the timeouts whose delay has elapsed
Due == {t \in timers : t.left = 0}

-----------------------------------------------------------------------------
(* Builds *)

InFlight == {builds[k].id : k \in 1..Len(builds)}

NoBuild == [id |-> 0, by |-> "none", phase |-> "none", n |-> 0, i |-> 0, ok |-> 0,
            ng |-> 0, reloaded |-> FALSE]

NewBuild(by, phase) ==
    [id |-> started + 1, by |-> by, phase |-> phase, n |-> 0, i |-> 0, ok |-> 0,
     ng |-> 0, reloaded |-> FALSE]

Remove(seq, k) == SubSeq(seq, 1, k - 1) \o SubSeq(seq, k + 1, Len(seq))

\* history of a build start
NoteStart(by) ==
    /\ timerStarts' = IF by = "timer" THEN Min(timerStarts + 1, 2) ELSE timerStarts
    /\ startsAfterStop' = IF signals > 0 THEN 1 ELSE startsAfterStop
    /\ closedStarts' = IF closeCalls > 0 THEN 1 ELSE closedStarts

\* history of a qualifying file event
NoteEvent ==
    /\ sinceEvent' = 0
    /\ burstLen' = IF burstLen > 0 /\ sinceEvent < Debounce THEN Min(burstLen + 1, 2) ELSE 1
    /\ timerStarts' = 0

-----------------------------------------------------------------------------
(* runWatch: src/src/watch.ts *)

\* the events the watcher of runWatch delivers: getWatchPatterns, for an input
\* directory, an existing template directory and the include pattern
Watched(p) ==
    \/ IsPrefix(inputAbs \o <<sep>>, p) /\ EndsWith(p, ".md")
    \/ IsPrefix(templateAbs \o <<sep>>, p) /\ (EndsWith(p, ".html") \/ EndsWith(p, ".css"))
    \/ IsPrefix(includeAbs \o <<sep>>, p) /\ EndsWith(p, ".md")

\* scheduleRebuild(ctx)
ScheduleRebuild ==
    LET kept == IF debounceTimer # NoTimer THEN ClearTimeout(debounceTimer) ELSE timers
    IN  /\ timers' = kept \cup {NewTimer(kept)}
        /\ debounceTimer' = NewTimer(kept).id

\* runRebuild, lines 131-134
HasTemplateChanges(changedFilesSnapshot) ==
    \E f \in changedFilesSnapshot : StartsWith(f, templateAbs)

\* a runRebuild without the isRebuilding guard
RunRebuildUnguarded(by) ==
    /\ isRebuilding' = TRUE
    /\ changedFiles' = {}
    /\ builds' = Append(builds, [id |-> started + 1, by |-> by, phase |-> "collect",
                                 n |-> 0, i |-> 0, ok |-> 0, ng |-> 0, reloaded |-> FALSE])
    /\ started' = started + 1
    /\ NoteStart(by)

\* a runRebuild that reloads the templates whatever rebuild is in progress
RunRebuildReloadsAnyTime(by) ==
    /\ isRebuilding' = TRUE
    /\ changedFiles' = {}
    /\ builds' = Append(builds,
           NewBuild(by, IF \E f \in changedFiles : StartsWith(f, templateAbs)
                        THEN "load" ELSE "collect"))
    /\ started' = started + 1
    /\ NoteStart(by)

\* a runRebuild that forgets the pending set when it drops the request
RunRebuildDropClears(by) ==
    IF isRebuilding
    THEN /\ changedFiles' = {}
         /\ UNCHANGED <<isRebuilding, builds, started>>
         /\ UNCHANGED <<timerStarts, startsAfterStop, closedStarts>>
    ELSE /\ isRebuilding' = TRUE
         /\ changedFiles' = {}
         /\ builds' = Append(builds,
                NewBuild(by, IF \E f \in changedFiles : StartsWith(f, templateAbs)
                             THEN "load" ELSE "collect"))
         /\ started' = started + 1
         /\ NoteStart(by)

\* runRebuild up to its first await: the guard, the snapshot and the reload decision
RunRebuild(by) ==
    IF isRebuilding
    THEN /\ UNCHANGED <<isRebuilding, changedFiles, builds, started>>
         /\ UNCHANGED <<timerStarts, startsAfterStop, closedStarts>>
    ELSE /\ isRebuilding' = TRUE
         /\ changedFiles' = {}
         /\ builds' = Append(builds,
                NewBuild(by, IF HasTemplateChanges(changedFiles) THEN "load" ELSE "collect"))
         /\ started' = started + 1
         /\ NoteStart(by)

\* runWatch, lines 249-250: the initial build
RunWatchInitial ==
    /\ impl = "runWatch" /\ pc = "start"
    /\ pc' = "initial"
    /\ RunRebuild("initial")
    /\ UNCHANGED <<impl, once, timers, debounceTimer, building, templates, lastDone,
                   ready, closeCalls, signals, sinceEvent, burstLen, stopMidTimer,
                   stoppedBuilds, tplVars, cmdVars>>
    /\ evt' = NoEvent
    /\ UNCHANGED dropped

\* runWatch, lines 252-319: after the initial build, return (once) or start watching
RunWatchContinue ==
    /\ impl = "runWatch" /\ pc = "initial" /\ builds = <<>>
    /\ pc' = IF once THEN "returned" ELSE "watching"
    /\ exitCode' = IF once THEN 0 ELSE exitCode
    /\ UNCHANGED <<impl, once, changedFiles, timers, debounceTimer, isRebuilding, building,
                   templates, builds, lastDone, started, ready, closeCalls, signals,
                   sinceEvent, burstLen, timerStarts, startsAfterStop, stopMidTimer,
                   stoppedBuilds, closedStarts, tplVars, dryRun, initVars>>
    /\ evt' = NoEvent
    /\ UNCHANGED dropped

\* watcher.on("add" | "change" | "unlink"), lines 270-292
RunWatchEvent ==
    /\ impl = "runWatch" /\ pc = "watching" /\ closeCalls = 0
    /\ \E filePath \in {p \in EventPaths : Watched(p) /\ ~GetIgnorePatterns(p)} :
           /\ Cardinality(changedFiles \cup {filePath}) <= MaxPending
           /\ changedFiles' = changedFiles \cup {filePath}
           /\ evt' = filePath
    /\ ScheduleRebuild
    /\ NoteEvent
    /\ UNCHANGED <<impl, once, pc, isRebuilding, building, templates, builds, lastDone,
                   started, ready, closeCalls, signals, startsAfterStop, stopMidTimer,
                   stoppedBuilds, closedStarts, tplVars, cmdVars>>
    /\ UNCHANGED dropped

\* the timeout callback of scheduleRebuild, lines 98-100
RunWatchTimer ==
    /\ impl = "runWatch"
    /\ isRebuilding \/ started < MaxBuilds
    /\ \E t \in Due : timers' = timers \ {t}
    /\ dropped' = IF isRebuilding THEN 1 ELSE dropped
    /\ evt' = NoEvent
    /\ RunRebuild("timer")
    /\ UNCHANGED <<impl, once, pc, debounceTimer, building, templates, lastDone, ready,
                   closeCalls, signals, sinceEvent, burstLen, stopMidTimer, stoppedBuilds,
                   tplVars, cmdVars>>

\* a runRebuild without the finally: a rebuild that threw leaves the flag set
RunRebuildSettleNoFinally(k, b) ==
    /\ builds' = Remove(builds, k)
    /\ lastDone' = b
    /\ isRebuilding' = (b.phase = "threw")

\* runRebuild, lines 166-172: catch and finally
RunRebuildSettle(k, b) ==
    /\ builds' = Remove(builds, k)
    /\ lastDone' = b
    /\ isRebuilding' = FALSE

\* runRebuild, lines 136-141: await loadTemplates
RunRebuildLoad ==
    /\ impl = "runWatch"
    /\ \E k \in 1..Len(builds) :
        /\ builds[k].phase = "load"
        /\ \/ /\ templates' = templates + 1
              /\ builds' = [builds EXCEPT ![k].phase = "collect", ![k].reloaded = TRUE]
              /\ UNCHANGED <<lastDone, isRebuilding>>
           \/ /\ RunRebuildSettle(k, [builds[k] EXCEPT !.phase = "threw"])
              /\ UNCHANGED templates
    /\ UNCHANGED <<impl, once, pc, changedFiles, timers, debounceTimer, building, started,
                   ready, closeCalls, signals, sinceEvent, burstLen, timerStarts,
                   startsAfterStop, stopMidTimer, stoppedBuilds, closedStarts, tplVars, cmdVars>>
    /\ evt' = NoEvent
    /\ UNCHANGED dropped

\* buildMarkdownFiles, line 382: await collectMarkdownFiles
BuildCollect ==
    /\ impl = "runWatch"
    /\ \E k \in 1..Len(builds) :
        /\ builds[k].phase = "collect"
        /\ \/ \E n \in 1..MaxDocs :
                 /\ builds' = [builds EXCEPT ![k].phase = "docs", ![k].n = n]
                 /\ UNCHANGED <<lastDone, isRebuilding>>
           \/ RunRebuildSettle(k, [builds[k] EXCEPT !.phase = "done"])
           \/ RunRebuildSettle(k, [builds[k] EXCEPT !.phase = "threw"])
    /\ UNCHANGED <<impl, once, pc, changedFiles, timers, debounceTimer, building, templates,
                   started, ready, closeCalls, signals, sinceEvent, burstLen, timerStarts,
                   startsAfterStop, stopMidTimer, stoppedBuilds, closedStarts, tplVars, cmdVars>>
    /\ evt' = NoEvent
    /\ UNCHANGED dropped

\* a loop turn without the try/catch: a failing document ends the loop uncounted
BuildLoopTurnThrows(b, success) ==
    IF success THEN [b EXCEPT !.i = b.i + 1, !.ok = b.ok + 1] ELSE [b EXCEPT !.i = b.n]

\* buildMarkdownFiles, lines 387-396: one turn of the loop; success is whether
\* buildSingleFile resolved
BuildLoopTurn(b, success) ==
    [b EXCEPT !.i = b.i + 1,
              !.ok = IF success THEN b.ok + 1 ELSE b.ok,
              !.ng = IF success THEN b.ng ELSE b.ng + 1]

\* buildMarkdownFiles, line 387: the loop goes on while documents are left
BuildLoopDone(b) == b.i = b.n

\* buildMarkdownFiles, lines 387-398, and runRebuild's finally after the last turn
BuildDocument ==
    /\ impl = "runWatch"
    /\ \E k \in 1..Len(builds), success \in BOOLEAN :
        /\ builds[k].phase = "docs"
        /\ LET b == BuildLoopTurn(builds[k], success)
           IN  IF BuildLoopDone(b)
               THEN RunRebuildSettle(k, [b EXCEPT !.phase = "done"])
               ELSE /\ builds' = [builds EXCEPT ![k] = b]
                    /\ UNCHANGED <<lastDone, isRebuilding>>
    /\ UNCHANGED <<impl, once, pc, changedFiles, timers, debounceTimer, building, templates,
                   started, ready, closeCalls, signals, sinceEvent, burstLen, timerStarts,
                   startsAfterStop, stopMidTimer, stoppedBuilds, closedStarts, tplVars, cmdVars>>
    /\ evt' = NoEvent
    /\ UNCHANGED dropped

\* a signal handler that drops the rebuild in flight
RunWatchSignalAborts ==
    /\ impl = "runWatch" /\ pc \in {"watching", "stopped"}
    /\ signals < MaxSignals
    /\ signals' = signals + 1
    /\ closeCalls' = closeCalls + 1
    /\ pc' = "stopped"
    /\ stopMidTimer' = (stopMidTimer \/ timers # {})
    /\ stoppedBuilds' = stoppedBuilds \cup InFlight
    /\ builds' = <<>>
    /\ isRebuilding' = FALSE
    /\ UNCHANGED <<impl, once, changedFiles, timers, debounceTimer, building,
                   templates, lastDone, started, ready, sinceEvent, burstLen,
                   timerStarts, startsAfterStop, closedStarts, tplVars, cmdVars>>
    /\ evt' = NoEvent
    /\ UNCHANGED dropped

\* process.on("SIGINT" | "SIGTERM"), lines 304-318
RunWatchSignal ==
    /\ impl = "runWatch" /\ pc \in {"watching", "stopped"}
    /\ signals < MaxSignals
    /\ signals' = signals + 1
    /\ closeCalls' = closeCalls + 1
    /\ pc' = "stopped"
    /\ stopMidTimer' = (stopMidTimer \/ timers # {})
    /\ stoppedBuilds' = stoppedBuilds \cup InFlight
    /\ UNCHANGED <<impl, once, changedFiles, timers, debounceTimer, isRebuilding, building,
                   templates, builds, lastDone, started, ready, sinceEvent, burstLen,
                   timerStarts, startsAfterStop, closedStarts, tplVars, cmdVars>>
    /\ evt' = NoEvent
    /\ UNCHANGED dropped

\* the passing of one tick of time
Tick ==
    /\ \/ \E t \in timers : t.left > 0
       \/ sinceEvent < Debounce
    /\ timers' = {[t EXCEPT !.left = IF t.left > 0 THEN t.left - 1 ELSE 0] : t \in timers}
    /\ sinceEvent' = Min(sinceEvent + 1, Debounce)
    /\ UNCHANGED <<impl, once, pc, changedFiles, debounceTimer, isRebuilding, building,
                   templates, builds, lastDone, started, ready, closeCalls, signals,
                   burstLen, timerStarts, startsAfterStop, stopMidTimer, stoppedBuilds,
                   closedStarts, tplVars, cmdVars>>
    /\ evt' = NoEvent
    /\ UNCHANGED dropped

NotRendered == <<"not rendered">>

\* no token stream is being walked in this session
NoWalk == tokens = <<>> /\ index = 0 /\ emitted = <<>>

\* no exit code yet: the command has not returned
NoExitCode == -1

\* no init command in this session
NoInit ==
    /\ force = FALSE /\ preset = "none"
    /\ disk = <<>> /\ disk0 = <<>> /\ results = <<>>

InitWatch ==
    /\ once \in BOOLEAN
    /\ pc = IF impl = "startWatch" THEN "watching" ELSE "start"
    /\ changedFiles = {}
    /\ timers = {}
    /\ debounceTimer = NoTimer
    /\ isRebuilding = FALSE
    /\ building = FALSE
    /\ templates = 0
    /\ builds = <<>>
    /\ lastDone = NoBuild
    /\ started = 0
    /\ ready = FALSE
    /\ closeCalls = 0
    /\ signals = 0
    /\ sinceEvent = Debounce
    /\ burstLen = 0
    /\ timerStarts = 0
    /\ startsAfterStop = 0
    /\ stopMidTimer = FALSE
    /\ stoppedBuilds = {}
    /\ closedStarts = 0
    /\ dropped = 0
    /\ evt = NoEvent

InitRunWatch ==
    /\ impl = "runWatch"
    /\ InitWatch
    /\ tplIn = <<>> /\ tplOut = NotRendered /\ NoWalk
    /\ exitCode = NoExitCode /\ dryRun = FALSE /\ NoInit

NextRunWatch ==
    \/ RunWatchInitial
    \/ RunWatchContinue
    \/ RunWatchEvent
    \/ RunWatchTimer
    \/ RunRebuildLoad
    \/ BuildCollect
    \/ BuildDocument
    \/ RunWatchSignal
    \/ Tick

SpecRunWatch == InitRunWatch /\ [][NextRunWatch]_vars

-----------------------------------------------------------------------------
(* startWatch: src/unnamed/part_005, and its caller handleWatchCommand:      *)
(* src/unnamed/part_006                                                      *)

\* the once option startWatch is given: handleWatchCommand passes once: false
swOnce == impl = "startWatch" /\ once

\* the callers of buildOnce: the watch command, the watcher's onBuild and the batch
\* command
BuildOnceCallers == {"handleWatchCommand", "startWatch", "mainWithArgs:buildOnce"}

\* an exit code that reports success whatever the build counted
ExitCodeZero(b) == 0

\* `result.ng > 0 ? 1 : 0`
ExitCodeOf(b) == IF b.ng > 0 THEN 1 ELSE 0

\* a filter that takes the template files of subdirectories too
QualifiesRecursive(eventPath) ==
    LET isMd == EndsWith(ToLowerCase(eventPath), ".md")
        isTemplate == EndsWith(ToLowerCase(eventPath), ".template.html")
    IN  \/ IsPrefix(templateAbs \o <<sep>>, eventPath) /\ isTemplate
        \/ IsPrefix(inputAbs \o <<sep>>, eventPath) /\ isMd

\* scheduleBuild, lines 55-68: the filter
Qualifies(eventPath) ==
    LET isMd == EndsWith(ToLowerCase(eventPath), ".md")
        isTemplate == EndsWith(ToLowerCase(eventPath), ".template.html")
        isInTemplateDir == Dirname(eventPath) = templateAbs /\ isTemplate
        isInInput == (IsPrefix(inputAbs \o <<sep>>, eventPath) \/ eventPath = inputAbs) /\ isMd
    IN  isInTemplateDir \/ isInInput

\* scheduleBuild, lines 74-78: cancel the armed timeout, arm a new one
ScheduleBuild ==
    LET kept == IF debounceTimer # NoTimer THEN ClearTimeout(debounceTimer) ELSE timers
    IN  /\ timers' = kept \cup {NewTimer(kept)}
        /\ debounceTimer' = NewTimer(kept).id

\* handleWatchCommand, lines 250-258: the build before any watcher exists
HandleWatchCommandInitial ==
    /\ impl = "handleWatchCommand" /\ pc = "start"
    /\ pc' = "initial"
    /\ builds' = Append(builds, NewBuild("initial", "load"))
    /\ started' = started + 1
    /\ NoteStart("initial")
    /\ UNCHANGED <<impl, once, changedFiles, timers, debounceTimer, isRebuilding, building,
                   templates, lastDone, ready, closeCalls, signals, sinceEvent, burstLen,
                   stopMidTimer, stoppedBuilds, tplVars, cmdVars>>
    /\ evt' = NoEvent
    /\ UNCHANGED dropped

\* watcher.on("add" | "change" | "unlink"), lines 110-112, and scheduleBuild
StartWatchEvent ==
    /\ impl \in {"handleWatchCommand", "startWatch"} /\ pc = "watching" /\ closeCalls = 0
    /\ \E eventPath \in {p \in EventPaths : WatchedPaths(p) /\ ~BuildIgnored(p)} :
           /\ evt' = eventPath
           /\ IF Qualifies(eventPath)
              THEN ScheduleBuild /\ NoteEvent
              ELSE UNCHANGED <<timers, debounceTimer, sinceEvent, burstLen, timerStarts>>
    /\ UNCHANGED <<impl, once, pc, changedFiles, isRebuilding, building, templates, builds,
                   lastDone, started, ready, closeCalls, signals, startsAfterStop,
                   stopMidTimer, stoppedBuilds, closedStarts, tplVars, cmdVars>>
    /\ UNCHANGED dropped

\* the timeout callback of scheduleBuild, lines 78-93, up to await onBuild()
StartWatchTimer ==
    /\ impl \in {"handleWatchCommand", "startWatch"}
    /\ building \/ started < MaxBuilds
    /\ \E t \in Due : timers' = timers \ {t}
    /\ debounceTimer' = NoTimer
    /\ dropped' = IF building THEN 1 ELSE dropped
    /\ evt' = NoEvent
    /\ IF building
       THEN UNCHANGED <<building, builds, started, timerStarts, startsAfterStop, closedStarts>>
       ELSE /\ building' = TRUE
            /\ builds' = Append(builds, NewBuild("timer", "load"))
            /\ started' = started + 1
            /\ NoteStart("timer")
    /\ UNCHANGED <<impl, once, pc, changedFiles, isRebuilding, templates, lastDone, ready,
                   closeCalls, signals, sinceEvent, burstLen, stopMidTimer, stoppedBuilds,
                   tplVars, cmdVars>>

\* watcher.on("ready"), lines 114-123, up to await onBuild()
StartWatchReady ==
    /\ impl \in {"handleWatchCommand", "startWatch"} /\ pc = "watching" /\ closeCalls = 0
    /\ ~ready
    /\ ready' = TRUE
    /\ IF swOnce
       THEN /\ started < MaxBuilds
            /\ building' = TRUE
            /\ builds' = Append(builds, NewBuild("ready", "load"))
            /\ started' = started + 1
            /\ NoteStart("ready")
       ELSE UNCHANGED <<building, builds, started, timerStarts, startsAfterStop, closedStarts>>
    /\ UNCHANGED <<impl, once, pc, changedFiles, timers, debounceTimer, isRebuilding,
                   templates, lastDone, closeCalls, signals, sinceEvent, burstLen,
                   stopMidTimer, stoppedBuilds, tplVars, cmdVars>>
    /\ evt' = NoEvent
    /\ UNCHANGED dropped

\* what follows await buildOnce() / await onBuild() for the build b that was k-th in flight:
\*   handleWatchCommand, lines 252-264 (the initial build);
\*   startWatch, lines 97-106 (the timeout callback) and 124-130 (the ready handler)
OnBuildSettle(k, b) ==
    /\ builds' = Remove(builds, k)
    /\ lastDone' = b
    /\ IF b.by \in {"initial", "batch"}
       THEN LET returns == b.phase = "threw" \/ once \/ b.by = "batch"
            IN  /\ pc' = IF returns THEN "returned" ELSE "watching"
                /\ exitCode' = IF ~returns THEN exitCode
                               ELSE IF b.phase = "threw" THEN 1 ELSE ExitCodeOf(b)
                /\ UNCHANGED <<building, closeCalls>>
       ELSE /\ building' = FALSE
            /\ closeCalls' = IF b.by = "ready" \/ swOnce THEN closeCalls + 1 ELSE closeCalls
            /\ UNCHANGED <<pc, exitCode>>

\* buildOnce, line 124: await loadTemplates
BuildOnceLoad ==
    /\ impl \in BuildOnceCallers
    /\ \E k \in 1..Len(builds) :
        /\ builds[k].phase = "load"
        /\ \/ /\ builds' = [builds EXCEPT ![k].phase = "collect", ![k].reloaded = TRUE]
              /\ UNCHANGED <<lastDone, pc, building, closeCalls, exitCode>>
           \/ OnBuildSettle(k, [builds[k] EXCEPT !.phase = "threw"])
    /\ UNCHANGED <<impl, once, changedFiles, timers, debounceTimer, isRebuilding, templates,
                   started, ready, signals, sinceEvent, burstLen, timerStarts,
                   startsAfterStop, stopMidTimer, stoppedBuilds, closedStarts, tplVars, dryRun,
                   initVars>>
    /\ evt' = NoEvent
    /\ UNCHANGED dropped

\* buildOnce, lines 125-129: await collectMarkdownFiles; no document is an error
BuildOnceCollect ==
    /\ impl \in BuildOnceCallers
    /\ \E k \in 1..Len(builds) :
        /\ builds[k].phase = "collect"
        /\ \/ \E n \in 1..MaxDocs :
                 /\ builds' = [builds EXCEPT ![k].phase = "docs", ![k].n = n]
                 /\ UNCHANGED <<lastDone, pc, building, closeCalls, exitCode>>
           \/ OnBuildSettle(k, [builds[k] EXCEPT !.phase = "threw"])
    /\ UNCHANGED <<impl, once, changedFiles, timers, debounceTimer, isRebuilding, templates,
                   started, ready, signals, sinceEvent, burstLen, timerStarts,
                   startsAfterStop, stopMidTimer, stoppedBuilds, closedStarts, tplVars, dryRun,
                   initVars>>
    /\ evt' = NoEvent
    /\ UNCHANGED dropped

\* buildOnce, lines 141-168: one turn of the loop
BuildOnceLoopTurn(b, success) ==
    [b EXCEPT !.i = b.i + 1,
              !.ok = IF success THEN b.ok + 1 ELSE b.ok,
              !.ng = IF success THEN b.ng ELSE b.ng + 1]

\* buildOnce, lines 141-174, and what follows the await of the caller
BuildOnceDocument ==
    /\ impl \in BuildOnceCallers
    /\ \E k \in 1..Len(builds), success \in BOOLEAN :
        /\ builds[k].phase = "docs"
        /\ LET b == BuildOnceLoopTurn(builds[k], success)
           IN  IF b.i = b.n
               THEN OnBuildSettle(k, [b EXCEPT !.phase = "done"])
               ELSE /\ builds' = [builds EXCEPT ![k] = b]
                    /\ UNCHANGED <<lastDone, pc, building, closeCalls, exitCode>>
    /\ UNCHANGED <<impl, once, changedFiles, timers, debounceTimer, isRebuilding, templates,
                   started, ready, signals, sinceEvent, burstLen, timerStarts,
                   startsAfterStop, stopMidTimer, stoppedBuilds, closedStarts, tplVars, dryRun,
                   initVars>>
    /\ evt' = NoEvent
    /\ UNCHANGED dropped

\* handleWatchCommand, lines 277-286: process.on("SIGINT"), and the close listener
HandleWatchCommandSignal ==
    /\ impl = "handleWatchCommand" /\ pc \in {"watching", "stopped"}
    /\ signals < MaxSignals
    /\ signals' = signals + 1
    /\ closeCalls' = closeCalls + 1
    /\ pc' = "stopped"
    /\ stopMidTimer' = (stopMidTimer \/ timers # {})
    /\ stoppedBuilds' = stoppedBuilds \cup InFlight
    /\ UNCHANGED <<impl, once, changedFiles, timers, debounceTimer, isRebuilding, building,
                   templates, builds, lastDone, started, ready, sinceEvent, burstLen,
                   timerStarts, startsAfterStop, closedStarts, tplVars, cmdVars>>
    /\ evt' = NoEvent
    /\ UNCHANGED dropped

InitStartWatch ==
    /\ impl \in {"handleWatchCommand", "startWatch"}
    /\ InitWatch
    /\ tplIn = <<>> /\ tplOut = NotRendered /\ NoWalk
    /\ exitCode = NoExitCode /\ dryRun = FALSE /\ NoInit

NextStartWatch ==
    \/ HandleWatchCommandInitial
    \/ StartWatchEvent
    \/ StartWatchTimer
    \/ StartWatchReady
    \/ BuildOnceLoad
    \/ BuildOnceCollect
    \/ BuildOnceDocument
    \/ HandleWatchCommandSignal
    \/ Tick

SpecStartWatch == InitStartWatch /\ [][NextStartWatch]_vars

-----------------------------------------------------------------------------
(* The batch command: mainWithArgs of src/src/cli.ts, which calls             *)
(* buildMarkdownFiles, and mainWithArgs of src/unnamed/part_006, which calls  *)
(* buildOnce.                                                                 *)

BatchCommands == {"mainWithArgs:buildMarkdownFiles", "mainWithArgs:buildOnce"}

\* what is left unchanged by every step of a batch command
BatchFrame ==
    UNCHANGED <<impl, once, changedFiles, timers, debounceTimer, isRebuilding, building,
                templates, ready, closeCalls, signals, sinceEvent, burstLen, stopMidTimer,
                stoppedBuilds, dropped, evt, tplVars, dryRun, initVars>>

\* cli.ts, lines 245-280: load the templates, collect the documents, return early
\* with none or with --dry-run, else call buildMarkdownFiles
MainWithArgsCollect ==
    /\ impl = "mainWithArgs:buildMarkdownFiles" /\ pc = "start"
    /\ \E n \in 0..MaxDocs :
        IF n = 0
        THEN /\ pc' = "returned" /\ exitCode' = 1
             /\ UNCHANGED <<builds, lastDone, started, timerStarts, startsAfterStop,
                            closedStarts>>
        ELSE IF dryRun
        THEN /\ pc' = "returned" /\ exitCode' = 0
             /\ lastDone' = [NoBuild EXCEPT !.by = "batch", !.phase = "dry run", !.n = n]
             /\ UNCHANGED <<builds, started, timerStarts, startsAfterStop, closedStarts>>
        ELSE /\ pc' = "building"
             /\ builds' = Append(builds, NewBuild("batch", "collect"))
             /\ started' = started + 1
             /\ NoteStart("batch")
             /\ UNCHANGED <<lastDone, exitCode>>
    /\ BatchFrame

\* cli.ts, lines 282-290, after buildMarkdownFiles has settled with b
MainWithArgsReturn(k, b) ==
    /\ builds' = Remove(builds, k)
    /\ lastDone' = b
    /\ pc' = "returned"
    /\ exitCode' = IF b.phase = "threw" THEN 1 ELSE ExitCodeOf(b)

\* buildMarkdownFiles, line 382, called by the batch command
MainWithArgsBuildCollect ==
    /\ impl = "mainWithArgs:buildMarkdownFiles" /\ pc = "building"
    /\ \E k \in 1..Len(builds) :
        /\ builds[k].phase = "collect"
        /\ \/ \E n \in 1..MaxDocs :
                 /\ builds' = [builds EXCEPT ![k].phase = "docs", ![k].n = n]
                 /\ UNCHANGED <<lastDone, pc, exitCode>>
           \/ MainWithArgsReturn(k, [builds[k] EXCEPT !.phase = "done"])
           \/ MainWithArgsReturn(k, [builds[k] EXCEPT !.phase = "threw"])
    /\ UNCHANGED <<started, timerStarts, startsAfterStop, closedStarts>>
    /\ BatchFrame

\* buildMarkdownFiles, lines 387-398, called by the batch command
MainWithArgsBuildDocument ==
    /\ impl = "mainWithArgs:buildMarkdownFiles" /\ pc = "building"
    /\ \E k \in 1..Len(builds), success \in BOOLEAN :
        /\ builds[k].phase = "docs"
        /\ LET b == BuildLoopTurn(builds[k], success)
           IN  IF BuildLoopDone(b)
               THEN MainWithArgsReturn(k, [b EXCEPT !.phase = "done"])
               ELSE /\ builds' = [builds EXCEPT ![k] = b]
                    /\ UNCHANGED <<lastDone, pc, exitCode>>
    /\ UNCHANGED <<started, timerStarts, startsAfterStop, closedStarts>>
    /\ BatchFrame

\* part_006, lines 369-377: the batch command calls buildOnce
MainWithArgsBuildOnce ==
    /\ impl = "mainWithArgs:buildOnce" /\ pc = "start"
    /\ pc' = "building"
    /\ builds' = Append(builds, NewBuild("batch", "load"))
    /\ started' = started + 1
    /\ NoteStart("batch")
    /\ UNCHANGED <<lastDone, exitCode>>
    /\ BatchFrame

InitBatch ==
    /\ impl \in BatchCommands
    /\ InitWatch
    /\ once = FALSE
    /\ tplIn = <<>> /\ tplOut = NotRendered /\ NoWalk
    /\ exitCode = NoExitCode /\ dryRun \in BOOLEAN /\ NoInit

NextBatch ==
    \/ MainWithArgsCollect
    \/ MainWithArgsBuildCollect
    \/ MainWithArgsBuildDocument
    \/ MainWithArgsBuildOnce
    \/ BuildOnceLoad
    \/ BuildOnceCollect
    \/ BuildOnceDocument

SpecBatch == InitBatch /\ [][NextBatch]_vars

------------------------------------------------------------------------------
(* The init command: src/unnamed/part_004, lines 304-760 *)

\* getPreset's `null`
Null == [null |-> TRUE]

\* the content the preset `name` gives to the file `path`
Content(name, path) == <<name, path>>

\* part_004, lines 304-624: the presets, each with the first and last files of its
\* list (wordpress has h3.template.html, generic has not)
PRESETS ==
    [wordpress |->
        [name |-> "wordpress",
         files |-> << [path |-> "h2.template.html",
                       content |-> Content("wordpress", "h2.template.html")],
                      [path |-> "h3.template.html",
                       content |-> Content("wordpress", "h3.template.html")],
                      [path |-> "sample.md",
                       content |-> Content("wordpress", "sample.md")] >>],
     generic |->
        [name |-> "generic",
         files |-> << [path |-> "h2.template.html",
                       content |-> Content("generic", "h2.template.html")],
                      [path |-> "sample.md",
                       content |-> Content("generic", "sample.md")] >>]]

\* what PRESETS inherits from Object.prototype: `constructor` is the function
\* Object, which has a name and no files
ObjectPrototype == [constructor |-> [name |-> "Object"]]

\* part_004, lines 626-628: PRESETS[name] || null
GetPreset(name) ==
    IF name \in DOMAIN PRESETS THEN PRESETS[name]
    ELSE IF name \in DOMAIN ObjectPrototype THEN ObjectPrototype[name]
    ELSE Null

\* the files the init command may touch
InitPaths == {"h2.template.html", "h3.template.html", "sample.md"}

\* the preset names given on the command line: the two listed ones, the command's
\* default (cli: values.preset ?? "example") and a member of Object.prototype
PresetNames == {"wordpress", "generic", "example", "constructor"}

\* part_004, lines 634-641
FileExists(d, filePath) == d[filePath] # "absent"

\* part_004, lines 643-666: the result and the disk it leaves
WriteFileIfNeeded(d, filePath, content, f, dry) ==
    LET existed == FileExists(d, filePath)
    IN  IF existed /\ ~f
        THEN [written |-> FALSE, existed |-> TRUE, disk |-> d]
        ELSE IF dry
        THEN [written |-> FALSE, existed |-> existed, disk |-> d]
        ELSE [written |-> TRUE, existed |-> existed,
              disk |-> [d EXCEPT ![filePath] = content]]

InitFrame ==
    UNCHANGED <<impl, once, changedFiles, timers, debounceTimer, isRebuilding, building,
                templates, builds, lastDone, started, ready, closeCalls, signals,
                sinceEvent, burstLen, timerStarts, startsAfterStop, stopMidTimer,
                stoppedBuilds, closedStarts, dropped, evt, tplVars, dryRun, force,
                preset, disk0>>

\* part_004, lines 669-674: an unknown preset returns 2
RunInitGetPreset ==
    /\ impl = "runInit" /\ pc = "start"
    /\ IF GetPreset(preset) = Null
       THEN pc' = "returned" /\ exitCode' = 2
       ELSE pc' = "files" /\ UNCHANGED exitCode
    /\ UNCHANGED <<disk, results>>
    /\ InitFrame

\* part_004, lines 690-709: one turn of `for (const file of preset.files)`; the
\* loop throws a TypeError when preset.files is undefined
RunInitFile ==
    /\ impl = "runInit" /\ pc = "files"
    /\ LET p == GetPreset(preset)
       IN  IF "files" \notin DOMAIN p
           THEN pc' = "threw" /\ UNCHANGED <<disk, results>>
           ELSE /\ Len(results) < Len(p.files)
                /\ LET file == p.files[Len(results) + 1]
                       result == WriteFileIfNeeded(disk, file.path, file.content,
                                                   force, dryRun)
                   IN  /\ disk' = result.disk
                       /\ results' = Append(results,
                                            [path |-> file.path,
                                             written |-> result.written,
                                             existed |-> result.existed])
                /\ UNCHANGED pc
    /\ UNCHANGED exitCode
    /\ InitFrame

\* part_004, lines 711-760: 0 for a dry run, 3 when a file was skipped without
\* force, else 0
RunInitReturn ==
    /\ impl = "runInit" /\ pc = "files"
    /\ LET p == GetPreset(preset)
           skipped == {k \in 1..Len(results) :
                          ~results[k].written /\ results[k].existed}
       IN  /\ "files" \in DOMAIN p
           /\ Len(results) = Len(p.files)
           /\ exitCode' = IF dryRun THEN 0
                          ELSE IF skipped # {} /\ ~force THEN 3
                          ELSE 0
    /\ pc' = "returned"
    /\ UNCHANGED <<disk, results>>
    /\ InitFrame

InitRunInit ==
    /\ impl = "runInit"
    /\ InitWatch
    /\ once = FALSE
    /\ tplIn = <<>> /\ tplOut = NotRendered /\ NoWalk
    /\ exitCode = NoExitCode
    /\ dryRun \in BOOLEAN
    /\ force \in BOOLEAN
    /\ preset \in PresetNames
    /\ disk0 \in [InitPaths -> {"absent", "old"}]
    /\ disk = disk0
    /\ results = <<>>

NextInit == RunInitGetPreset \/ RunInitFile \/ RunInitReturn

SpecInit == InitRunInit /\ [][NextInit]_vars

Init == InitRunWatch \/ InitStartWatch \/ InitBatch

Next ==
    \/ RunWatchInitial
    \/ RunWatchContinue
    \/ RunWatchEvent
    \/ RunWatchTimer
    \/ RunRebuildLoad
    \/ BuildCollect
    \/ BuildDocument
    \/ RunWatchSignal
    \/ HandleWatchCommandInitial
    \/ StartWatchEvent
    \/ StartWatchTimer
    \/ StartWatchReady
    \/ BuildOnceLoad
    \/ BuildOnceCollect
    \/ BuildOnceDocument
    \/ HandleWatchCommandSignal
    \/ Tick
    \/ MainWithArgsCollect
    \/ MainWithArgsBuildCollect
    \/ MainWithArgsBuildDocument
    \/ MainWithArgsBuildOnce

Spec == Init /\ [][Next]_vars

-----------------------------------------------------------------------------
(* The template engine: src/unnamed/part_008, lines 179-451 *)

Undefined == <<"undefined">>

\* `{{ key }}` and `{{{ key }}}`
Ph(key) == <<"{{ ", key, " }}">>
RawPh(key) == <<"{">> \o Ph(key) \o <<"}">>

RECURSIVE Flatten(_)
Flatten(ss) == IF ss = <<>> THEN <<>> ELSE Head(ss) \o Flatten(Tail(ss))

\* mdUtils.escapeHtml, on one atom
EscapeAtom(a) ==
    CASE a = "&" -> <<"&", "amp", ";">>
      [] a = "<" -> <<"&", "lt", ";">>
      [] a = ">" -> <<"&", "gt", ";">>
      [] a = "\"" -> <<"&", "quot", ";">>
      [] OTHER -> <<a>>

\* mdUtils.escapeHtml
EscapeHtml(s) == Flatten([k \in 1..Len(s) |-> EscapeAtom(s[k])])

\* String.prototype.includes
RECURSIVE Includes(_, _)
Includes(s, pat) ==
    IF Len(s) < Len(pat) THEN FALSE
    ELSE IsPrefix(pat, s) \/ Includes(Tail(s), pat)

\* s.split(pat).join(val), for a non-empty pat
RECURSIVE SplitJoin(_, _, _)
SplitJoin(s, pat, val) ==
    IF Len(s) < Len(pat) THEN s
    ELSE IF IsPrefix(pat, s)
         THEN val \o SplitJoin(SubSeq(s, Len(pat) + 1, Len(s)), pat, val)
         ELSE <<Head(s)>> \o SplitJoin(Tail(s), pat, val)

\* templates.get(tag)
Get(registry, tag) == IF tag \in DOMAIN registry THEN registry[tag] ELSE Undefined

\* !t, for t a string or undefined
Falsy(t) == t = Undefined \/ t = <<>>

\* `<tag>inner</tag>`
DefaultTag(tag, inner) == <<"<", tag, ">">> \o inner \o <<"</", tag, ">">>

\* applyTemplate, lines 199-217
ApplyTemplate(registry, tag, innerHtml) ==
    LET t == Get(registry, tag)
    IN  IF Falsy(t) THEN DefaultTag(tag, innerHtml)
        ELSE SplitJoin(t, Ph(tag), innerHtml)

\* applyTemplatePlaceholder, lines 231-240: the loop over Object.entries(vars), from
\* entry k on; vs is the sequence of the entries [key, value]
RECURSIVE PlaceholderLoop(_, _, _)
PlaceholderLoop(out, vs, k) ==
    IF k > Len(vs) THEN out
    ELSE PlaceholderLoop(SplitJoin(out, Ph(vs[k].key), vs[k].value), vs, k + 1)

\* applyTemplatePlaceholder, lines 219-243
ApplyTemplatePlaceholder(registry, tag, vs) ==
    LET t == Get(registry, tag)
        own == CHOOSE k \in 1..Len(vs) : vs[k].key = tag
    IN  IF Falsy(t) THEN DefaultTag(tag, vs[own].value)
        ELSE PlaceholderLoop(t, vs, 1)

\* vars[key] ?? ""
ValueOf(vs, key) ==
    IF \E k \in 1..Len(vs) : vs[k].key = key
    THEN vs[CHOOSE k \in 1..Len(vs) : vs[k].key = key].value
    ELSE <<>>

\* a first pass that takes the triple braces of the template as the mark of rawness:
\* every variable met as `{{{ key }}}` is inserted as it is
RECURSIVE RawPassBySyntax(_, _, _, _)
RawPassBySyntax(out, vs, rawVars, k) ==
    IF k > Len(vs) THEN out
    ELSE RawPassBySyntax(SplitJoin(out, RawPh(vs[k].key), vs[k].value), vs, rawVars, k + 1)

\* applyTemplateWithRawHtml, lines 264-275: the first pass, over rawVars (a sequence:
\* the iteration order of the Set) from entry k on
RECURSIVE RawPass(_, _, _, _)
RawPass(out, vs, rawVars, k) ==
    IF k > Len(rawVars) THEN out
    ELSE LET placeholder == RawPh(rawVars[k])
             next == IF Includes(out, placeholder)
                     THEN SplitJoin(out, placeholder, ValueOf(vs, rawVars[k]))
                     ELSE out
         IN  RawPass(next, vs, rawVars, k + 1)

\* applyTemplateWithRawHtml, lines 277-283: the second pass, over Object.entries(vars)
RECURSIVE EscapedPass(_, _, _, _)
EscapedPass(out, vs, rawVars, k) ==
    IF k > Len(vs) THEN out
    ELSE IF \E j \in 1..Len(rawVars) : rawVars[j] = vs[k].key
         THEN EscapedPass(out, vs, rawVars, k + 1)
         ELSE EscapedPass(SplitJoin(out, Ph(vs[k].key), EscapeHtml(vs[k].value)),
                          vs, rawVars, k + 1)

\* applyTemplateWithRawHtml, lines 249-286
ApplyTemplateWithRawHtml(registry, tag, vs, rawVars) ==
    LET t == Get(registry, tag)
    IN  IF Falsy(t) THEN <<>>
        ELSE EscapedPass(RawPass(t, vs, rawVars, 1), vs, rawVars, 1)

\* the white space String.prototype.trim removes: U+3000 is part of it
IsWhitespace(a) == a \in {" ", "U+3000"}

RECURSIVE TrimStart(_)
TrimStart(s) ==
    IF s # <<>> /\ IsWhitespace(Head(s)) THEN TrimStart(Tail(s)) ELSE s

RECURSIVE TrimEnd(_)
TrimEnd(s) ==
    IF s # <<>> /\ IsWhitespace(s[Len(s)]) THEN TrimEnd(SubSeq(s, 1, Len(s) - 1)) ELSE s

\* String.prototype.trim
Trim(s) == TrimEnd(TrimStart(s))

\* the atoms [^\w\u3000-\u9fff] matches
NonWordAtoms == {" ", "-", "<", ">", "&", ";", "\"", "{", "}", "{{ ", " }}", "</", "=", "{1-3}"}

\* .replace(/[^\w\u3000-\u9fff]+/g, "-").replace(/-+/g, "-")
RECURSIVE Hyphenate(_)
Hyphenate(s) ==
    IF s = <<>> THEN <<>>
    ELSE IF Head(s) \in NonWordAtoms
         THEN LET rest == Hyphenate(Tail(s))
              IN  IF rest # <<>> /\ Head(rest) = "-" THEN rest ELSE <<"-">> \o rest
         ELSE <<Head(s)>> \o Hyphenate(Tail(s))

\* .replace(/^-|-$/g, "")
StripHyphens(s) ==
    LET a == IF s # <<>> /\ Head(s) = "-" THEN Tail(s) ELSE s
    IN  IF a # <<>> /\ a[Len(a)] = "-" THEN SubSeq(a, 1, Len(a) - 1) ELSE a

\* slugify, lines 444-451
Slugify(text) == StripHyphens(Hyphenate(Trim(ToLowerCase(text))))

\* the languages hljs.getLanguage knows
HljsLanguages == {<<"js">>}

\* hljs.highlight(code, ...).value: markup around the escaped text of the code
Highlight(code) ==
    IF code = <<>> THEN <<>>
    ELSE <<"<span class=\"hljs-x\">">> \o EscapeHtml(code) \o <<"</span>">>

\* a match that takes the whole info string for the language
WholeInfo(s) == s

\* info.match(/^(\S+)/): the atoms before the first white space
RECURSIVE FirstToken(_)
FirstToken(s) ==
    IF s = <<>> \/ IsWhitespace(Head(s)) THEN <<>>
    ELSE <<Head(s)>> \o FirstToken(Tail(s))

RawLang(info) == FirstToken(Trim(info))

\* a lang that falls back to `text` for every language the highlighter does not know
LangOrText(info) == IF RawLang(info) \in HljsLanguages THEN RawLang(info) ELSE <<"text">>

\* renderFence, line 327
Lang(info) == IF RawLang(info) = <<>> THEN <<"text">> ELSE RawLang(info)

\* a renderFence without the try/catch around hljs.highlight
IsSupportedUncaught(info, throws) ==
    RawLang(info) # <<>> /\ RawLang(info) \in HljsLanguages

\* renderFence, lines 330-349
IsSupported(info, throws) ==
    RawLang(info) # <<>> /\ RawLang(info) \in HljsLanguages /\ ~throws

HighlightedHtml(info, code, throws) ==
    IF IsSupported(info, throws) THEN Highlight(code) ELSE EscapeHtml(code)

\* the variables renderFence hands to the codeblock template, lines 355-359
FenceVars(info, code, throws) ==
    << [key |-> "lang", value |-> Lang(info)],
       [key |-> "code", value |-> HighlightedHtml(info, code, throws)],
       [key |-> "raw", value |-> code] >>

FenceRawVars == <<"code">>

\* renderFence, lines 312-372
RenderFence(registry, info, code, throws) ==
    LET template == ApplyTemplateWithRawHtml(registry, "codeblock",
                                             FenceVars(info, code, throws), FenceRawVars)
        langClass == IF IsSupported(info, throws)
                     THEN <<" language-">> \o RawLang(info) ELSE <<>>
    IN  IF template # <<>> THEN template
        ELSE <<"<pre><code class=\"hljs">> \o langClass \o <<"\">">>
             \o HighlightedHtml(info, code, throws) \o <<"</code></pre>\n">>

\* the variables of a heading, lines 398-407
HeadingVars(tag, inner) ==
    << [key |-> tag, value |-> inner], [key |-> "id", value |-> Slugify(inner)] >>

\* the rendered inline HTML of a heading or a paragraph
InlineValues ==
    { <<"Hello">>,
      <<"Hello", " ">> \o Ph("id"),
      <<"a", " ", "&", "lt", ";", " ", "b">>,
      <<"-", "U+3000", "-">>,
      Ph("h2"),
      Ph("p") }

\* the content of a fence
FenceContents ==
    { <<>>, <<"x">>, <<"<", "x", ">">>, <<"x", " ">> \o Ph("raw") \o <<"&">>,
      Ph("lang"), RawPh("code") }

\* the info string of a fence
FenceInfos ==
    { <<>>, <<" ">>, <<"js">>, <<" ", "js", " ", "{1-3}">>, <<"nope">>, <<"<", "b", ">">>,
      <<"nope", "U+3000", "js">> }

ParagraphTemplates ==
    { Undefined, <<>>, <<"<p class=\"x\">">> \o Ph("p") \o <<"</p>">>,
      Ph("p") \o <<"|">> \o Ph("p"), <<"<hr>">> }

HeadingTemplates ==
    { Undefined, <<>>,
      <<"<h2 id=\"">> \o Ph("id") \o <<"\">">> \o Ph("h2") \o <<"</h2>">>,
      Ph("id") \o <<"|">> \o Ph("h2"),
      Ph("h2") }

CodeblockTemplates ==
    { Undefined, <<>>,
      <<"<pre>">> \o RawPh("code") \o <<"</pre>">>,
      Ph("lang") \o <<"|">> \o RawPh("code") \o <<"|">> \o Ph("raw"),
      RawPh("lang") \o <<"|">> \o Ph("code"),
      Ph("raw") \o <<"|">> \o RawPh("code") \o RawPh("code"),
      RawPh("code") }

\* the Templates map holding t under tag, or nothing when the file is absent
Registry(tag, t) == IF t = Undefined THEN <<>> ELSE (tag :> t)

Token(type, tag, t, info, content, throws) ==
    [type |-> type, tag |-> tag, registry |-> Registry(tag, t),
     info |-> info, content |-> content, throws |-> throws]

\* the tokens transformMarkdownToHtml treats itself, lines 390-435
Tokens ==
    {Token("paragraph_open", "p", t, <<>>, v, FALSE) :
        t \in ParagraphTemplates, v \in InlineValues}
    \cup {Token("heading_open", "h2", t, <<>>, v, FALSE) :
        t \in HeadingTemplates, v \in InlineValues}
    \cup {Token("fence", "codeblock", t, i, c, th) :
        t \in CodeblockTemplates, i \in FenceInfos, c \in FenceContents, th \in BOOLEAN}

\* lines 416-429
TransformParagraph ==
    /\ impl = "transformMarkdownToHtml"
    /\ tplIn.type = "paragraph_open" /\ tplOut = NotRendered
    /\ tplOut' = ApplyTemplate(tplIn.registry, tplIn.tag, tplIn.content)
    /\ UNCHANGED <<watchVars, tplIn, walkVars, cmdVars>>

\* lines 390-413
TransformHeading ==
    /\ impl = "transformMarkdownToHtml"
    /\ tplIn.type = "heading_open" /\ tplOut = NotRendered
    /\ tplOut' = ApplyTemplatePlaceholder(tplIn.registry, tplIn.tag,
                                          HeadingVars(tplIn.tag, tplIn.content))
    /\ UNCHANGED <<watchVars, tplIn, walkVars, cmdVars>>

\* lines 431-435
TransformFence ==
    /\ impl = "transformMarkdownToHtml"
    /\ tplIn.type = "fence" /\ tplOut = NotRendered
    /\ tplOut' = RenderFence(tplIn.registry, tplIn.info, tplIn.content, tplIn.throws)
    /\ UNCHANGED <<watchVars, tplIn, walkVars, cmdVars>>

InitTransform ==
    /\ impl = "transformMarkdownToHtml"
    /\ InitWatch
    /\ once = FALSE
    /\ tplIn \in Tokens
    /\ tplOut = NotRendered /\ NoWalk
    /\ exitCode = NoExitCode /\ dryRun = FALSE /\ NoInit

NextTransform == TransformParagraph \/ TransformHeading \/ TransformFence

SpecTransform == InitTransform /\ [][NextTransform]_vars

-----------------------------------------------------------------------------
(* The block dispatch walker: src/unnamed/part_008, lines 374-442 *)

MaxTokens == 3      \* most tokens of a stream

\* tokens[k] for a k outside the stream: undefined
NoToken == [type |-> "undefined", tag |-> ""]

\* the tokens of a stream, by type and tag
TokenKinds ==
    { [type |-> "heading_open", tag |-> "h2"],
      [type |-> "inline", tag |-> ""],
      [type |-> "heading_close", tag |-> "h2"],
      [type |-> "paragraph_open", tag |-> "p"],
      [type |-> "paragraph_close", tag |-> "p"],
      [type |-> "fence", tag |-> "code"],
      [type |-> "mystery", tag |-> ""] }

\* the streams md.parse may return, a foreign or malformed one included
TokenStreams == UNION {[1..n -> TokenKinds] : n \in 0..MaxTokens}

\* tokens[k - 1] of the code, whose positions start at 0
TokenAt(k) == IF k \in 1..Len(tokens) THEN tokens[k] ELSE NoToken

\* one turn of the loop appended to out: how it rendered, the positions it rendered
\* and the position the next turn starts at
Emit(how, rendered, next) ==
    /\ emitted' = Append(emitted, [how |-> how, at |-> index, rendered |-> rendered])
    /\ index' = next

WalkFrame ==
    UNCHANGED <<impl, once, changedFiles, timers, debounceTimer, isRebuilding, building,
                templates, builds, lastDone, started, ready, closeCalls, signals,
                sinceEvent, burstLen, timerStarts, startsAfterStop, stopMidTimer,
                stoppedBuilds, closedStarts, dropped, evt, tplIn, tplOut, tokens, cmdVars>>

\* a fast path that is taken whatever follows the open token
OpenTurnUnchecked(inline) == Emit("template", {index, index + 1}, index + 3)

\* lines 392-396 and 419-423, then 398-413 and 425-429: the turn of an open token,
\* `i += 2` and the `i++` of the loop
OpenTurn(inline) ==
    IF inline = NoToken \/ inline.type # "inline"
    THEN Emit("default", {index}, index + 1)
    ELSE Emit("template", {index, index + 1}, index + 3)

\* lines 389-414: heading_open
WalkHeading ==
    /\ impl = "transformMarkdownToHtml" /\ pc = "walk"
    /\ index <= Len(tokens)
    /\ tokens[index].type = "heading_open"
    /\ OpenTurn(TokenAt(index + 1))
    /\ UNCHANGED pc
    /\ WalkFrame

\* lines 416-430: paragraph_open
WalkParagraph ==
    /\ impl = "transformMarkdownToHtml" /\ pc = "walk"
    /\ index <= Len(tokens)
    /\ tokens[index].type = "paragraph_open"
    /\ OpenTurn(TokenAt(index + 1))
    /\ UNCHANGED pc
    /\ WalkFrame

\* lines 432-436: fence
WalkFence ==
    /\ impl = "transformMarkdownToHtml" /\ pc = "walk"
    /\ index <= Len(tokens)
    /\ tokens[index].type = "fence"
    /\ Emit("fence", {index}, index + 1)
    /\ UNCHANGED pc
    /\ WalkFrame

\* lines 438-439: every other token
WalkDefault ==
    /\ impl = "transformMarkdownToHtml" /\ pc = "walk"
    /\ index <= Len(tokens)
    /\ tokens[index].type \notin {"heading_open", "paragraph_open", "fence"}
    /\ Emit("default", {index}, index + 1)
    /\ UNCHANGED pc
    /\ WalkFrame

\* lines 386 and 441: the loop ends, out is returned
WalkReturn ==
    /\ impl = "transformMarkdownToHtml" /\ pc = "walk"
    /\ index > Len(tokens)
    /\ pc' = "returned"
    /\ UNCHANGED <<index, emitted>>
    /\ WalkFrame

InitWalk ==
    /\ impl = "transformMarkdownToHtml"
    /\ once = FALSE
    /\ pc = "walk"
    /\ changedFiles = {} /\ timers = {} /\ debounceTimer = NoTimer
    /\ isRebuilding = FALSE /\ building = FALSE /\ templates = 0
    /\ builds = <<>> /\ lastDone = NoBuild /\ started = 0 /\ ready = FALSE
    /\ closeCalls = 0 /\ signals = 0 /\ sinceEvent = Debounce /\ burstLen = 0
    /\ timerStarts = 0 /\ startsAfterStop = 0 /\ stopMidTimer = FALSE
    /\ stoppedBuilds = {} /\ closedStarts = 0 /\ dropped = 0 /\ evt = NoEvent
    /\ tplIn = <<>> /\ tplOut = NotRendered
    /\ tokens \in TokenStreams
    /\ index = 1
    /\ emitted = <<>>
    /\ exitCode = NoExitCode /\ dryRun = FALSE /\ NoInit

NextWalk == WalkHeading \/ WalkParagraph \/ WalkFence \/ WalkDefault \/ WalkReturn

SpecWalk == InitWalk /\ [][NextWalk]_vars

\* the loop is not suspended: it has no await
FairSpecWalk == SpecWalk /\ WF_vars(NextWalk)

\* the continuations of a build are I/O completions: each one comes in the end
BuildProgress == RunRebuildLoad \/ BuildCollect \/ BuildDocument

FairSpecRunWatch == SpecRunWatch /\ WF_vars(BuildProgress)

-----------------------------------------------------------------------------
(* Claims about the watch/build coordinator *)

\* a timeout callback runs in this step
TimerFires == \E t \in timers : t.left = 0 /\ timers' = timers \ {t}

\* a build starts in this step
BuildStarts == started' = started + 1

AllBuilds == {builds[k] : k \in 1..Len(builds)} \cup {lastDone}

\* C1: single-flight: whatever the interleaving of file events, timer firings, build
\* completions and the ready event, at most one build executes at any instant.
C1_SingleFlight == Len(builds) <= 1

\* C2: debounce coalescing: for a burst of qualifying events, the timer that elapses
\* with no build in flight starts a build, no second build is started by the timer
\* for the same burst, and a build the timer starts starts no sooner than a full
\* debounce interval after the last event.
C2_DebounceCoalesces ==
    /\ [](timerStarts <= 1)
    /\ [][(TimerFires /\ builds = <<>>) => BuildStarts]_vars
    /\ [][(TimerFires /\ BuildStarts) => sinceEvent >= Debounce]_vars

C2_Witness == burstLen = 2 /\ timerStarts = 1 /\ builds # <<>>

\* C3: (runWatch) a file event that arrives during a rebuild is recorded in the pending
\* set and starts no build; a timer that elapses during a rebuild starts none either, so
\* no build starts before the one in flight has completed; once it has, the timer that
\* elapses after a later event starts one build, and only one.
C3_EventsDuringRebuild ==
    /\ [](Len(builds) <= 1 /\ timerStarts <= 1)
    /\ [][(evt' # NoEvent /\ isRebuilding) =>
            (evt' \in changedFiles' /\ builds' = builds /\ started' = started)]_vars
    /\ [][BuildStarts => (builds = <<>> /\ ~isRebuilding)]_vars
    /\ [][(TimerFires /\ ~isRebuilding) => BuildStarts]_vars

C3_Witness == dropped = 1 /\ timerStarts = 1 /\ started >= 2 /\ lastDone.id >= 1

\* C4: a stop signal that arrives while a debounce timer is pending cancels the timer,
\* and no rebuild starts at or after the stop.
C4_StopCancelsTimer == stopMidTimer => (timers = {} /\ startsAfterStop = 0)

\* C5: the watcher is closed exactly once per session, whatever number of stop signals
\* arrive and whatever the coordinator is doing when they arrive.
C5_ClosedExactlyOnce == signals > 0 => closeCalls = 1

\* C6: (runWatch) a stop signal leaves the rebuild in flight alone, and that rebuild
\* runs to completion: it settles having taken every discovered document, and the
\* rebuilding flag is cleared.
C6_StopLetsBuildFinish ==
    /\ [][signals' > signals => (builds' = builds /\ isRebuilding' = isRebuilding)]_vars
    /\ \A id \in 1..MaxBuilds :
           (id \in stoppedBuilds /\ id \in InFlight)
               ~> (id \notin InFlight /\ lastDone.id = id /\ lastDone.i = lastDone.n
                   /\ ~isRebuilding)

C6_Witness ==
    /\ lastDone.id \in stoppedBuilds
    /\ lastDone.phase = "done" /\ lastDone.n = 2 /\ lastDone.i = 2
    /\ ~isRebuilding

\* C7: in run-once mode exactly one build executes, no file event starts another, and
\* the watcher, when there is one, is closed exactly once.
C7_OnceRunsOneBuild == once => (started <= 1 /\ closeCalls <= 1)

\* C8: within one build every discovered document is attempted exactly once: ok + ng
\* counts the attempts made, and equals the number of discovered documents when the
\* build completes, failures included.
C8_EveryDocumentOnce ==
    \A b \in AllBuilds :
        /\ b.ok + b.ng = b.i
        /\ b.i <= b.n
        /\ b.phase = "done" => b.ok + b.ng = b.n

C8_Witness == lastDone.phase = "done" /\ lastDone.n = 2 /\ lastDone.ng = 1 /\ lastDone.ok = 1


\* the slots of the token tplIn: the placeholder text and the text inserted in its place
Slots ==
    CASE tplIn.type = "paragraph_open" ->
            {[pat |-> Ph("p"), val |-> tplIn.content]}
      [] tplIn.type = "heading_open" ->
            {[pat |-> Ph("h2"), val |-> tplIn.content],
             [pat |-> Ph("id"), val |-> Slugify(tplIn.content)]}
      [] tplIn.type = "fence" ->
            {[pat |-> RawPh("code"),
              val |-> HighlightedHtml(tplIn.info, tplIn.content, tplIn.throws)],
             [pat |-> Ph("lang"), val |-> EscapeHtml(Lang(tplIn.info))],
             [pat |-> Ph("raw"), val |-> EscapeHtml(tplIn.content)]}

\* the template of the token tplIn
Template == Get(tplIn.registry, tplIn.tag)

\* one scan of s: each slot found is replaced, the text put in is not looked at again
RECURSIVE ScanOnce(_, _)
ScanOnce(s, slots) ==
    IF s = <<>> THEN <<>>
    ELSE IF \E sl \in slots : IsPrefix(sl.pat, s)
         THEN LET sl == CHOOSE x \in slots : IsPrefix(x.pat, s)
              IN  sl.val \o ScanOnce(SubSeq(s, Len(sl.pat) + 1, Len(s)), slots)
         ELSE <<Head(s)>> \o ScanOnce(Tail(s), slots)

Rendered == tplOut # NotRendered /\ ~Falsy(Template)

\* C9: the text put in for a placeholder is not scanned again: whenever the template
\* holds the placeholder of a variable, the text inserted for that variable is found
\* unchanged in the output, also when it holds the text of another placeholder
C9_NoNestedExpansion ==
    Rendered => \A sl \in Slots : Includes(Template, sl.pat) => Includes(tplOut, sl.val)

\* C10: in the substitution with a raw set, `{{{ name }}}` of a raw name becomes the
\* value as it is and `{{ name }}` of any other name becomes the escaped value; for
\* a fence this is the highlighted code as it is, and the escaped lang and raw
C10_RawAndEscapedSlots ==
    (Rendered /\ tplIn.type = "fence") => tplOut = ScanOnce(Template, Slots)


\* the atoms escapeHtml never lets through
MarkupAtoms == {"<", ">", "\""}

EntityNames == {"amp", "lt", "gt", "quot"}

\* s holds a character that escapeHtml would have replaced
Unescaped(s) ==
    \E k \in 1..Len(s) :
        \/ s[k] \in MarkupAtoms
        \/ /\ s[k] = "&"
           /\ ~(k + 2 <= Len(s) /\ s[k + 1] \in EntityNames /\ s[k + 2] = ";")

\* C11: rawness is declared by the caller, never read from the template: the values
\* of lang and raw of a fence reach the output escaped, whether the template names
\* them with two braces or with three
C11_RawnessIsDeclared ==
    (tplIn.type = "fence" /\ tplOut # NotRendered) => ~Unescaped(tplOut)

\* a fence whose lang holds markup, rendered by a template that names lang with
\* three braces
C11_Witness ==
    /\ tplIn.type = "fence" /\ tplOut # NotRendered
    /\ Includes(Template, RawPh("lang"))
    /\ Unescaped(Lang(tplIn.info))
    /\ Includes(tplOut, <<"{">> \o EscapeHtml(Lang(tplIn.info)) \o <<"}">>)


\* a template is registered under the key of the token tplIn
Registered == tplIn.tag \in DOMAIN tplIn.registry

\* C12: a heading or a paragraph with a template registered under its key renders as
\* that template with every `{{ hN }}` / `{{ p }}` replaced by the inline content as
\* it is and every `{{ id }}` by slugify(content); with no template registered it
\* renders as exactly `<tag>content</tag>`
C12_HeadingAndParagraph ==
    (tplIn.type \in {"heading_open", "paragraph_open"} /\ tplOut # NotRendered)
        => tplOut = IF Registered THEN ScanOnce(Template, Slots)
                    ELSE DefaultTag(tplIn.tag, tplIn.content)


\* the language declared by the fence tplIn is absent or unknown to the highlighter
NoHighlighterLanguage ==
    RawLang(tplIn.info) = <<>> \/ RawLang(tplIn.info) \notin HljsLanguages

\* the variables renderFence hands to the template for the fence tplIn
TokenFenceVars == FenceVars(tplIn.info, tplIn.content, tplIn.throws)

\* C13: for a fence whose declared language is absent or not supported by the
\* highlighter, the lang given to the template is the literal `text`, the default
\* wrapper carries no `language-*` class and the code is HTML-escaped
C13_UnsupportedLanguage ==
    (tplIn.type = "fence" /\ tplOut # NotRendered /\ NoHighlighterLanguage)
        => /\ ValueOf(TokenFenceVars, "lang") = <<"text">>
           /\ ~Includes(tplOut, <<" language-">>)
           /\ ValueOf(TokenFenceVars, "code") = EscapeHtml(tplIn.content)


\* C13, as the code has it: for a fence with no declared language the lang given to
\* the template is the literal `text`; for a declared language the highlighter does
\* not support it is the declared token itself; in both cases the default wrapper
\* carries no `language-*` class and the code is HTML-escaped
C13_UnsupportedLanguageAmended ==
    (tplIn.type = "fence" /\ tplOut # NotRendered /\ NoHighlighterLanguage)
        => /\ ValueOf(TokenFenceVars, "lang") =
                IF RawLang(tplIn.info) = <<>> THEN <<"text">> ELSE RawLang(tplIn.info)
           /\ ~Includes(tplOut, <<" language-">>)
           /\ ValueOf(TokenFenceVars, "code") = EscapeHtml(tplIn.content)

\* a fence of the unsupported language `nope` rendered by a template that shows lang
C13_Witness ==
    /\ tplIn.type = "fence" /\ tplOut # NotRendered
    /\ RawLang(tplIn.info) = <<"nope">>
    /\ Includes(Template, Ph("lang"))
    /\ tplIn.content = <<"<", "x", ">">>
    /\ Includes(tplOut, <<"nope">>)
    /\ Includes(tplOut, EscapeHtml(tplIn.content))


\* the first white-space-delimited token of s, <<>> when s has none
FirstWord(s) ==
    LET word == {k \in 1..Len(s) : ~IsWhitespace(s[k])}
    IN  IF word = {} THEN <<>>
        ELSE LET a == CHOOSE k \in word : \A j \in word : k <= j
                 b == CHOOSE k \in a..Len(s) :
                          /\ \A j \in a..k : j \in word
                          /\ (k = Len(s) \/ k + 1 \notin word)
             IN  SubSeq(s, a, b)

\* C14: the language of a fence is the first white-space-delimited token of its info
\* string, further tokens being ignored; for an empty or blank info string it is the
\* literal `text`
C14_FirstTokenIsLanguage ==
    (tplIn.type = "fence" /\ tplOut # NotRendered)
        => LET language == IF FirstWord(tplIn.info) = <<>> THEN <<"text">>
                           ELSE FirstWord(tplIn.info)
           IN  /\ ValueOf(TokenFenceVars, "lang") = language
               /\ IsPrefix(Ph("lang") \o <<"|">>, Template)
                      => IsPrefix(EscapeHtml(language) \o <<"|">>, tplOut)

\* a fence with the info string ` js {1-3}` rendered by a template that starts with
\* lang
C14_Witness ==
    /\ tplIn.type = "fence" /\ tplOut # NotRendered
    /\ tplIn.info = <<" ", "js", " ", "{1-3}">>
    /\ IsPrefix(<<"js", "|">>, tplOut)


\* `<pre><code class="hljs…">content</code></pre>\n`
DefaultWrapper(langClass, content) ==
    <<"<pre><code class=\"hljs">> \o langClass \o <<"\">">> \o content
        \o <<"</code></pre>\n">>

\* C15: with no codeblock template registered a fence renders as the default wrapper,
\* whose class carries ` language-<lang>` exactly when a language was declared, the
\* highlighter knows it and highlighting succeeded; with a codeblock template
\* registered the output is that template with its placeholders substituted, and
\* the default wrapper is not used
C15_WrapperOrTemplate ==
    (tplIn.type = "fence" /\ tplOut # NotRendered)
        => LET highlighted == /\ RawLang(tplIn.info) # <<>>
                              /\ RawLang(tplIn.info) \in HljsLanguages
                              /\ ~tplIn.throws
               langClass == IF highlighted THEN <<" language-">> \o RawLang(tplIn.info)
                            ELSE <<>>
           IN  tplOut = IF Registered THEN ScanOnce(Template, Slots)
                        ELSE DefaultWrapper(langClass, ValueOf(TokenFenceVars, "code"))


\* C16: slugify is idempotent: slugify(slugify(x)) = slugify(x) for the inline
\* content x of every heading
C16_SlugifyIdempotent ==
    (tplIn.type = "heading_open" /\ tplOut # NotRendered)
        => Slugify(Slugify(tplIn.content)) = Slugify(tplIn.content)


\* C17: the batch command returns 1 if at least one document failed and 0 if every
\* document succeeded, and in both cases every discovered document has been
\* attempted when it returns
C17_BatchExitCode ==
    (impl \in BatchCommands /\ pc = "returned" /\ lastDone.phase = "done")
        => /\ lastDone.i = lastDone.n
           /\ lastDone.ok + lastDone.ng = lastDone.n
           /\ lastDone.ng > 0 => exitCode = 1
           /\ lastDone.ok = lastDone.n => exitCode = 0

\* a batch run of two documents, one of which failed, returned 1
C17_Witness ==
    /\ impl \in BatchCommands /\ pc = "returned" /\ lastDone.phase = "done"
    /\ lastDone.n = 2 /\ lastDone.ok = 1 /\ lastDone.ng = 1
    /\ exitCode = 1

\* C18: `watch --once` returns a non-zero exit code when at least one document
\* failed in its single build and 0 when every document succeeded
C18_OnceExitCode ==
    (impl \in {"runWatch", "handleWatchCommand"} /\ once /\ pc = "returned"
     /\ lastDone.phase = "done")
        => /\ lastDone.ng > 0 => exitCode # 0
           /\ lastDone.ok = lastDone.n => exitCode = 0


\* p lies in the output directory
InOutputDirectory(p) == Len(p) > Len(outAbs) /\ SubSeq(p, 1, Len(outAbs) + 1) = outAbs \o <<sep>>

\* p lies under a directory named node_modules, dist or .git
InIgnoredDirectory(p) ==
    \E k \in 1..(Len(p) - 1) :
        /\ p[k] \in {"node_modules", "dist", ".git"}
        /\ k = 1 \/ p[k - 1] = sep
        /\ p[k + 1] = sep

\* the step arms a debounce timer
Schedules == timers' # timers /\ \E t \in timers' : t.left = Debounce /\ t \notin timers

\* C19: no rebuild loop: a file in the output directory or under a node_modules,
\* dist or .git directory never yields a notification, so none schedules a rebuild;
\* a file under a directory whose name only starts with an ignored name
\* (distillery) is not ignored
C19_NoRebuildLoop ==
    /\ [][evt' # NoEvent => (~InOutputDirectory(evt') /\ ~InIgnoredDirectory(evt'))]_vars
    /\ [][Schedules => (evt' # NoEvent /\ ~InOutputDirectory(evt')
                        /\ ~InIgnoredDirectory(evt'))]_vars
    /\ [](~BuildIgnored(P_distillery) /\ ~GetIgnorePatterns(P_distillery))

\* a change under input/distillery was notified and armed the timer, after an
\* earlier build had finished
C19_Witness ==
    /\ evt = P_distillery /\ timers # {}
    /\ lastDone.phase = "done" /\ lastDone.ok > 0


\* the names listPresets() gives
ListedPresets == {"wordpress", "generic"}

\* runInit has settled
InitSettled == impl = "runInit" /\ pc \in {"returned", "threw"}

\* the paths of the files of the preset asked for
PresetPaths == {PRESETS[preset].files[k].path : k \in 1..Len(PRESETS[preset].files)}

\* C20: runInit with force = false never changes a file that exists, creates the
\* preset's missing files and returns 3 when a file was skipped; with dryRun it
\* writes nothing and returns 0; with an unknown preset it writes nothing and
\* returns 2
C20_RunInit ==
    impl = "runInit" =>
        /\ ~force => \A f \in InitPaths : disk0[f] # "absent" => disk[f] = disk0[f]
        /\ (InitSettled /\ preset \in ListedPresets /\ ~force /\ ~dryRun) =>
              /\ pc = "returned"
              /\ \A f \in PresetPaths :
                    disk0[f] = "absent" => disk[f] = Content(preset, f)
              /\ (\E f \in PresetPaths : disk0[f] # "absent") => exitCode = 3
        /\ dryRun => disk = disk0
        /\ (InitSettled /\ preset \in ListedPresets /\ dryRun) =>
              pc = "returned" /\ exitCode = 0
        /\ preset \notin ListedPresets => disk = disk0
        /\ (InitSettled /\ preset \notin ListedPresets) =>
              pc = "returned" /\ exitCode = 2


\* C21: (runWatch) a debounce timer that elapses while a rebuild is in progress is
\* dropped: no rebuild starts and the pending set, the rebuilding flag and the
\* template registry stay as they were; the pending set loses paths only in the
\* step that starts a rebuild.
C21_DroppedRequest ==
    /\ [][(impl = "runWatch" /\ TimerFires /\ isRebuilding) =>
            /\ ~BuildStarts /\ builds' = builds
            /\ changedFiles' = changedFiles
            /\ isRebuilding' = isRebuilding
            /\ templates' = templates]_vars
    /\ [][(impl = "runWatch" /\ ~(changedFiles \subseteq changedFiles')) =>
            (BuildStarts /\ ~isRebuilding /\ isRebuilding' /\ changedFiles' = {})]_vars

\* a timer elapsed during a rebuild, and the paths recorded are still pending
C21_Witness ==
    impl = "runWatch" /\ dropped = 1 /\ isRebuilding /\ changedFiles # {} /\ timers = {}


\* p is the template directory or one of its descendants
UnderTemplateDirectory(p) ==
    \/ p = templateAbs
    \/ Len(p) > Len(templateAbs) /\ SubSeq(p, 1, Len(templateAbs) + 1) = templateAbs \o <<sep>>

\* the rebuild started in this step
Started == builds'[Len(builds')]

\* C22: (runWatch) a rebuild that runs empties the pending set in the step in which
\* it starts, and reloads the template registry if and only if a path of the
\* snapshot is the template directory or one of its descendants; the initial
\* rebuild, whose snapshot is empty, does not reload.
C22_ReloadIffTemplateChange ==
    /\ [][(impl = "runWatch" /\ BuildStarts) =>
            /\ changedFiles' = {}
            /\ (Started.phase = "load") <=> (\E f \in changedFiles : UnderTemplateDirectory(f))
            /\ Started.by = "initial" => Started.phase # "load"]_vars
    /\ [][(impl = "runWatch" /\ templates' # templates) =>
            \E k \in 1..Len(builds) : builds[k].phase = "load"]_vars


\* C23: at most one debounce timer is armed at any time: a qualifying event cancels
\* the timer armed before it and arms a new one, so the armed timer is the one of
\* the most recent event and expires one debounce interval after it.
C23_OneTimer ==
    /\ [](Cardinality(timers) <= 1)
    /\ [](\A t \in timers : t.id = debounceTimer /\ t.left + sinceEvent = Debounce)
    /\ [][(timers # {} /\ sinceEvent' = 0 /\ sinceEvent # 0) =>
            (timers' \cap timers = {} /\ Cardinality(timers') = 1)]_vars
    /\ [][TimerFires => sinceEvent = Debounce]_vars

\* a second event came while the timer of the first was running, and one timer is
\* armed, with a full interval left
C23_Witness ==
    /\ burstLen = 2 /\ sinceEvent = 0
    /\ \E t \in timers : timers = {t} /\ t.left = Debounce


\* the builds that have been handed the template registry: those past the call of
\* buildMarkdownFiles
HoldRegistry == {k \in 1..Len(builds) : builds[k].phase \in {"collect", "docs"}}

\* C24: (runWatch) the template registry handed to a build is not replaced while
\* that build is in flight: a reload puts a new registry in place of the old one,
\* in a rebuild that has not yet been handed the registry nor rendered a document,
\* and while no other build holds the registry.
C24_RegistryStableDuringBuild ==
    [][(impl = "runWatch" /\ templates' # templates) =>
        /\ templates' > templates
        /\ HoldRegistry = {}
        /\ \E k \in 1..Len(builds) :
              /\ builds[k].phase = "load" /\ builds[k].i = 0 /\ builds[k].n = 0
              /\ builds'[k].phase = "collect" /\ builds'[k].reloaded]_vars

\* a rebuild that reloaded the registry is rendering its documents
C24_Witness ==
    /\ impl = "runWatch" /\ templates >= 1
    /\ \E k \in 1..Len(builds) :
          builds[k].reloaded /\ builds[k].phase = "docs" /\ builds[k].i >= 1


\* the extension of p, in lower case
Extension(p) == IF p = <<>> THEN "" ELSE LowerAtom(p[Len(p)])

\* p is dir or lies below it, at any depth
AtOrBelow(p, dir) ==
    p = dir \/ (Len(p) > Len(dir) /\ SubSeq(p, 1, Len(dir) + 1) = dir \o <<sep>>)

\* p is a file of dir itself: dir, a separator, a name and an extension
DirectlyIn(p, dir) == Len(p) = Len(dir) + 3 /\ SubSeq(p, 1, Len(dir) + 1) = dir \o <<sep>>

\* the session state other than the record of the last event
SessionState ==
    <<impl, once, pc, changedFiles, timers, debounceTimer, isRebuilding, building,
      templates, builds, lastDone, started, ready, closeCalls, signals, sinceEvent,
      burstLen, timerStarts, startsAfterStop, stopMidTimer, stoppedBuilds,
      closedStarts, dropped, tplVars, cmdVars>>

\* C25: (startWatch) a file event restarts the debounce timer only if its path ends
\* in `.md`, whatever the case, and is the input path or below it, or ends in
\* `.template.html` and lies directly in the template directory; any other event
\* leaves the timer and the rest of the session state unchanged.
C25_QualifyingEvents ==
    [][(impl \in {"handleWatchCommand", "startWatch"} /\ evt' # NoEvent) =>
        IF \/ Extension(evt') = ".md" /\ AtOrBelow(evt', inputAbs)
           \/ Extension(evt') = ".template.html" /\ DirectlyIn(evt', templateAbs)
        THEN /\ \E t \in timers' : timers' = {t} /\ t.left = Debounce
                                   /\ debounceTimer' = t.id
             /\ sinceEvent' = 0
        ELSE UNCHANGED SessionState]_vars

\* an event of template/sub/h2.template.html came while a timer was running and
\* left it running
C25_Witness ==
    /\ impl \in {"handleWatchCommand", "startWatch"}
    /\ evt = P_tplSub
    /\ \E t \in timers : t.left = 1
    /\ sinceEvent = 1


\* the text s with &, <, > and " written as entities
RECURSIVE EscapedText(_)
EscapedText(s) ==
    IF s = <<>> THEN <<>>
    ELSE (IF Head(s) = "&" THEN <<"&", "amp", ";">>
          ELSE IF Head(s) = "<" THEN <<"&", "lt", ";">>
          ELSE IF Head(s) = ">" THEN <<"&", "gt", ";">>
          ELSE IF Head(s) = "\"" THEN <<"&", "quot", ";">>
          ELSE <<Head(s)>>) \o EscapedText(Tail(s))

\* C26: when a fence declares no language, declares one the highlighter does not
\* support, or the highlighter throws, the `code` slot holds the HTML-escaped raw
\* code and isSupported is false, so the default wrapper shows the escaped code
\* without a language class; the exception does not reach the caller, who gets the
\* rendering.
C26_HighlightFallback ==
    (tplIn.type = "fence" /\ tplOut # NotRendered /\ (NoHighlighterLanguage \/ tplIn.throws))
        => /\ ValueOf(TokenFenceVars, "code") = EscapedText(tplIn.content)
           /\ ValueOf(TokenFenceVars, "raw") = tplIn.content
           /\ ~IsSupported(tplIn.info, tplIn.throws)
           /\ ~Registered =>
                 tplOut = <<"<pre><code class=\"hljs", "\">">>
                          \o EscapedText(tplIn.content) \o <<"</code></pre>\n">>

\* the fence of the test: language js, code `<x>`, the highlighter throws, no
\* codeblock template
C26_Witness ==
    /\ tplIn.type = "fence" /\ tplOut # NotRendered
    /\ tplIn.throws /\ RawLang(tplIn.info) = <<"js">>
    /\ tplIn.content = <<"<", "x", ">">>
    /\ ~Registered
    /\ Includes(tplOut, <<"&", "lt", ";", "x", "&", "gt", ";">>)
    /\ ~Includes(tplOut, <<" language-">>)


-----------------------------------------------------------------------------
(* Claims about the walker *)

\* the token at k opens a heading or a paragraph
IsOpen(k) == TokenAt(k).type \in {"heading_open", "paragraph_open"}

\* the token at k + 2 is the close that matches the open token at k
ClosedAt(k) ==
    /\ TokenAt(k + 2).type =
          (IF TokenAt(k).type = "heading_open" THEN "heading_close" ELSE "paragraph_close")
    /\ TokenAt(k + 2).tag = TokenAt(k).tag

\* open, inline content, matching close
WellShaped(k) == IsOpen(k) /\ TokenAt(k + 1).type = "inline" /\ ClosedAt(k)

\* the turns of the loop so far
Turns == {emitted[k] : k \in 1..Len(emitted)}

\* C27: on an open token the walker takes the template fast path only when the next
\* token is inline content and the one after it the matching close; otherwise it
\* renders the open token alone and goes on at the very next token; so every token
\* the loop has passed was rendered, or is the close of a well-shaped block.
C27_FastPathShape ==
    /\ \A e \in Turns : IsOpen(e.at) =>
          IF WellShaped(e.at) THEN e.how = "template"
          ELSE e.how = "default" /\ e.rendered = {e.at}
    /\ \A k \in 1..Len(tokens) : k < index =>
          \/ \E e \in Turns : k \in e.rendered
          \/ k >= 3 /\ WellShaped(k - 2)


\* C28: the walker terminates on every finite token stream: each turn of the loop
\* moves the position forward, the loop returns, and no turn takes for inline
\* content or renders a position beyond the end of the stream, also when an open
\* token is the last token or an open token and its inline token are the last two.
C28_WalkerTerminates ==
    /\ [][emitted' # emitted => index' > index]_vars
    /\ [](\A e \in Turns :
            /\ e.rendered \subseteq 1..Len(tokens)
            /\ e.how = "template" => TokenAt(e.at + 1).type = "inline")
    /\ [](index <= Len(tokens) + 2)
    /\ <>(pc = "returned" /\ index > Len(tokens))

\* the loop returned from a stream whose last two tokens are an open token and its
\* inline token
C28_Witness ==
    /\ pc = "returned"
    /\ Len(tokens) >= 2
    /\ IsOpen(Len(tokens) - 1) /\ TokenAt(Len(tokens)).type = "inline"
    /\ index = Len(tokens) + 2
    /\ emitted[Len(emitted)].how = "template"


\* a rebuild settles in this step because it threw
RebuildThrew == lastDone' # lastDone /\ lastDone'.phase = "threw"

\* C29: a rebuild that throws is caught: the step in which it settles resets the
\* rebuilding flag, leaves the session where it was (watching, watcher open, timer
\* as armed) and leaves the pending set as it is, the paths of its snapshot not
\* being put back; paths enter the pending set only with a file event.
C29_FailedRebuild ==
    /\ [][(impl = "runWatch" /\ RebuildThrew) =>
            /\ ~isRebuilding'
            /\ pc' = pc /\ closeCalls' = closeCalls /\ timers' = timers
            /\ changedFiles' = changedFiles
            /\ exitCode' = exitCode]_vars
    /\ [][(impl \in {"handleWatchCommand", "startWatch"} /\ ~once /\ RebuildThrew
           /\ lastDone'.by = "timer") =>
            /\ ~building'
            /\ pc' = pc /\ closeCalls' = closeCalls /\ timers' = timers
            /\ exitCode' = exitCode]_vars
    /\ [][(impl = "runWatch" /\ ~(changedFiles' \subseteq changedFiles)) =>
            (evt' # NoEvent /\ changedFiles' = changedFiles \cup {evt'})]_vars

\* after a rebuild that threw, a file event came and the timer started a rebuild,
\* which is in flight, the session still watching
C29_Witness ==
    /\ lastDone.phase = "threw" /\ lastDone.by = "timer"
    /\ pc = "watching" /\ closeCalls = 0
    /\ \E k \in 1..Len(builds) : builds[k].by = "timer" /\ builds[k].id > lastDone.id


\* changes are pending, no timer is armed and no rebuild is running, in a session
\* that is watching
Stranded ==
    /\ impl = "runWatch" /\ pc = "watching"
    /\ changedFiles # {} /\ timers = {}
    /\ ~isRebuilding /\ builds = <<>>

\* the rebuild in flight completes in this step
RebuildCompletes == isRebuilding /\ ~isRebuilding'

\* C30: (runWatch) a timer that elapses during a rebuild leaves its changes pending
\* with no rebuild started, and the completion of the rebuild in flight schedules
\* nothing: it arms no timer and starts no rebuild. So the state `pending set not
\* empty, no timer armed, no rebuild running` is entered at such a completion, and
\* it is left only by a new file event or by a stop signal.
C30_DroppedChangesWait ==
    /\ [][(impl = "runWatch" /\ TimerFires /\ isRebuilding) =>
            (changedFiles' = changedFiles /\ ~BuildStarts)]_vars
    /\ [][(impl = "runWatch" /\ RebuildCompletes) =>
            (timers' = timers /\ ~BuildStarts /\ changedFiles' = changedFiles)]_vars
    /\ [][(~Stranded /\ Stranded') => (RebuildCompletes /\ dropped = 1)]_vars
    /\ [][(Stranded /\ ~Stranded') => (evt' # NoEvent \/ signals' = signals + 1)]_vars
    /\ [][(Stranded /\ BuildStarts) => FALSE]_vars

\* the rebuild has completed; the changes recorded during it are pending, their
\* timer elapsed during the rebuild and no timer is armed
C30_Witness == Stranded /\ dropped = 1 /\ lastDone.phase = "done" /\ sinceEvent = Debounce

====
